---- MODULE Spec2Model ----
(***************************************************************************)
(* State-machine model of MarketDataService (services/MarketDataService.ts)*)
(* together with the WebSocket transports, timers and event bus it drives. *)
(*                                                                         *)
(* Timers are modelled without a clock: a pending setTimeout or            *)
(* setInterval callback may run at any later instant, and the delay it was *)
(* scheduled with is recorded in the step that scheduled it.  Transport    *)
(* events are delivered by the environment at any instant.  As the ws      *)
(* library does, a socket that fails before it opened (or whose handshake  *)
(* was aborted by close() or terminate()) emits 'error' and then 'close'   *)
(* in one turn of the event loop; an open socket emits 'close' alone, or   *)
(* an 'error' at some time before it.                                      *)
(*                                                                         *)
(* The message queue of NotificationService (services/                     *)
(* NotificationService.ts) is modelled next to it: its fields, the event-  *)
(* bus listeners it registers, and its processQueue loop, which is         *)
(* suspended at the delay after each send.                                 *)
(***************************************************************************)
EXTENDS Integers, Sequences, FiniteSets, Bags, TLC

\* ---------------------------------------------------------------- bounds
Symbols == {"AAPL", "MSFT"}
\* transports that may exist (not yet CLOSED, or holding a timer) at once
MaxSockets == 2
\* reconnect timers that may be pending at once
MaxReconnectTimers == 1
\* entries in one inbound trade batch
MaxBatch == 2
\* inbound frames delivered in one behaviour
MaxFrames == 2
\* notification messages created in one behaviour
MaxMessages == 4
\* listeners one NotificationService may have registered for one event
MaxListeners == 2

\* ------------------------------------------------------ program constants
maxReconnectAttempts == 5
reconnectDelay == 5
connectTimeoutDelay == 10
pingIntervalDelay == 30
sendDelay == 1

Slots == 1 .. MaxSockets

VARIABLES
  wsUrlValid,          \* whether new WebSocket(url) accepts the configured URL
  running,             \* this.running
  ws,                  \* this.ws: a slot, or 0 for undefined
  reconnectAttempts,   \* this.reconnectAttempts
  subscribedSymbols,   \* this.subscribedSymbols, in insertion order
  pingInterval,        \* this.pingInterval: slot whose open created it, or 0
  connectionTimeout,   \* this.connectionTimeout: slot whose connect armed it, or 0
  sock,                \* the WebSocket objects: readyState, who connected, pending
                       \* start(), and the call (close, terminate) that closed it
  connTimer,           \* whether the connect timeout armed for each slot is pending
  pingTimer,           \* whether the interval created by each slot's open is active
  reconnectTimers,     \* bag of pending reconnect timers [stale]
  disconnects,         \* close events handled while running since the last open
  lostState,           \* "ok", "failed" (connection-lost emitted), "failedStopped"
  userState,           \* "idle" or "started": the caller's last start()/stop()
  serverSubs,          \* symbols whose last frame on the current transport is a subscribe
  inbound,             \* the frames delivered so far, [conn, frame], in arrival order
  ticks,               \* the market:tick events emitted so far, [conn, tick]
  last,                \* what the most recent step did
  notif                \* the NotificationService: its fields, its event-bus
                       \* listeners, its suspended processQueue loops, and the
                       \* messages queued and sent so far

prog == <<wsUrlValid, running, ws, reconnectAttempts, subscribedSymbols,
          pingInterval, connectionTimeout, sock, connTimer, pingTimer,
          reconnectTimers>>
vars == <<wsUrlValid, running, ws, reconnectAttempts, subscribedSymbols,
          pingInterval, connectionTimeout, sock, connTimer, pingTimer,
          reconnectTimers, disconnects, lostState, userState, serverSubs,
          inbound, ticks, last, notif>>
market == <<wsUrlValid, running, ws, reconnectAttempts, subscribedSymbols,
            pingInterval, connectionTimeout, sock, connTimer, pingTimer,
            reconnectTimers, disconnects, lostState, userState, serverSubs,
            inbound, ticks, last>>

\* ---------------------------------------------------------------- helpers
Min(a, b) == IF a < b THEN a ELSE b

\* Set.add on an insertion-ordered set
SetAdd(seq, x) ==
  IF \E i \in 1 .. Len(seq) : seq[i] = x THEN seq ELSE Append(seq, x)

\* Set.delete on an insertion-ordered set
SetDelete(seq, x) == SelectSeq(seq, LAMBDA y : y # x)

Range(seq) == {seq[i] : i \in 1 .. Len(seq)}

NoSocket == [rs |-> "NONE", by |-> "none", awaited |-> FALSE, closedBy |-> "none"]

\* the effects of one step, reset at the start of every handler
NoEffects ==
  [op |-> "init", t |-> 0, noop |-> FALSE, newWs |-> 0, frames |-> <<>>,
   lost |-> 0, sched |-> 0, closed |-> 0, stale |-> FALSE, pings |-> 0,
   timeout |-> 0, interval |-> 0, startResult |-> "none",
   connectFailed |-> FALSE, wasRunning |-> FALSE, changed |-> FALSE,
   timersDelta |-> 0, sym |-> "", fieldsChanged |-> FALSE,
   received |-> <<>>, ticks |-> <<>>]

\* the program state as one record, so that handlers compose as functions
Cur ==
  [wsUrlValid |-> wsUrlValid, running |-> running, ws |-> ws,
   reconnectAttempts |-> reconnectAttempts,
   subscribedSymbols |-> subscribedSymbols,
   pingInterval |-> pingInterval, connectionTimeout |-> connectionTimeout,
   sock |-> sock, connTimer |-> connTimer, pingTimer |-> pingTimer,
   reconnectTimers |-> reconnectTimers, fx |-> NoEffects]

\* ws.readyState as the service reads it
readyState(s, t) ==
  IF s.sock[t].rs = "ABORTING" THEN "CLOSING" ELSE s.sock[t].rs

\* a slot can hold a new WebSocket when its previous one is CLOSED and no
\* timer created for it is still active
SlotFree(s, t) ==
  /\ s.sock[t].rs \in {"NONE", "CLOSED"}
  /\ ~s.connTimer[t]
  /\ ~s.pingTimer[t]

HasFreeSlot(s) == \E t \in Slots : SlotFree(s, t)

NewSlot(s) == CHOOSE t \in Slots : SlotFree(s, t) /\ \A u \in Slots : SlotFree(s, u) => t <= u

\* ------------------------------------------------- the ws library's calls
\* WebSocket.close(): a CONNECTING socket aborts its handshake (an error and
\* a close event follow), an OPEN one starts the closing handshake
wsClose(s, t) ==
  LET rs == s.sock[t].rs
      rs2 == IF rs = "CONNECTING" THEN "ABORTING"
             ELSE IF rs = "OPEN" THEN "CLOSING" ELSE rs
  IN [s EXCEPT !.sock[t].rs = rs2, !.fx.closed = t,
               !.sock[t].closedBy = IF rs \in {"CONNECTING", "OPEN"} THEN "close" ELSE @]

\* WebSocket.terminate(): as close(), without a closing handshake
wsTerminate(s, t) ==
  LET rs == s.sock[t].rs
      rs2 == IF rs = "CONNECTING" THEN "ABORTING"
             ELSE IF rs = "OPEN" THEN "CLOSING" ELSE rs
  IN [s EXCEPT !.sock[t].rs = rs2, !.fx.closed = t,
               !.sock[t].closedBy = IF rs \in {"CONNECTING", "OPEN"} THEN "terminate" ELSE @]

\* ws.send(frame) on the service's current transport
wsSend(s, type, symbol) ==
  [s EXCEPT !.fx.frames = Append(@, [to |-> s.ws, type |-> type, symbol |-> symbol])]

\* reject / resolve of the promise created by the connect() of slot t; only
\* a start() call awaits that promise (a reconnect logs the rejection), and
\* settling a settled promise does nothing
reject(s, t, why) ==
  IF s.sock[t].awaited
  THEN [s EXCEPT !.sock[t].awaited = FALSE, !.fx.startResult = why] ELSE s

resolve(s, t) ==
  IF s.sock[t].awaited
  THEN [s EXCEPT !.sock[t].awaited = FALSE, !.fx.startResult = "resolved"] ELSE s

\* ------------------------------------------------------ MarketDataService
isRunning == running

getSubscribedSymbols == subscribedSymbols

\* mutant: subscribe() sends without testing the transport's readyState
subscribeUnchecked(s, symbol) ==
  IF ~s.running \/ s.ws = 0 THEN s
  ELSE wsSend([s EXCEPT !.subscribedSymbols = SetAdd(@, symbol)],
              "subscribe", symbol)

subscribe(s, symbol) ==
  IF ~s.running \/ s.ws = 0 THEN s
  ELSE IF readyState(s, s.ws) # "OPEN"
  THEN [s EXCEPT !.subscribedSymbols = SetAdd(@, symbol)]
  ELSE wsSend([s EXCEPT !.subscribedSymbols = SetAdd(@, symbol)],
              "subscribe", symbol)

\* mutant: unsubscribe() leaves a queued symbol in the set when not open
unsubscribeKeepsQueued(s, symbol) ==
  IF ~s.running \/ s.ws = 0 THEN s
  ELSE IF readyState(s, s.ws) # "OPEN" THEN s
  ELSE wsSend([s EXCEPT !.subscribedSymbols = SetDelete(@, symbol)],
              "unsubscribe", symbol)

unsubscribe(s, symbol) ==
  IF ~s.running \/ s.ws = 0 THEN s
  ELSE IF readyState(s, s.ws) # "OPEN"
  THEN [s EXCEPT !.subscribedSymbols = SetDelete(@, symbol)]
  ELSE wsSend([s EXCEPT !.subscribedSymbols = SetDelete(@, symbol)],
              "unsubscribe", symbol)

RECURSIVE subscribeEach(_, _)
subscribeEach(s, symbols) ==
  IF symbols = <<>> THEN s
  ELSE subscribeEach(subscribe(s, Head(symbols)), Tail(symbols))

\* mutant: the open handler's replay sends nothing
resubscribeNone(s) == s

resubscribeAll(s) ==
  IF Len(s.subscribedSymbols) = 0 THEN s
  ELSE subscribeEach([s EXCEPT !.subscribedSymbols = <<>>], s.subscribedSymbols)

setupPingInterval(s, t) ==
  [s EXCEPT !.pingTimer[t] = TRUE, !.pingInterval = t, !.fx.interval = pingIntervalDelay]

\* connect(): new WebSocket(url) throws on a malformed URL and the promise
\* is rejected in the catch block; otherwise the new socket becomes this.ws
\* and its connect timeout becomes this.connectionTimeout
connect(s, by) ==
  IF ~s.wsUrlValid
  THEN (IF by = "start" THEN [s EXCEPT !.fx.startResult = "error"] ELSE s)
  ELSE LET t == NewSlot(s)
       IN [s EXCEPT !.ws = t,
                    !.sock[t] = [rs |-> "CONNECTING", by |-> by,
                                 awaited |-> (by = "start"), closedBy |-> "none"],
                    !.connTimer[t] = TRUE,
                    !.fx.timeout = connectTimeoutDelay,
                    !.connectionTimeout = t,
                    !.fx.newWs = t]

\* what a step needs to be able to run connect() within the bounds
CanConnect(s) == ~s.wsUrlValid \/ HasFreeSlot(s)

\* mutant: the delay does not grow with the attempt number
ReconnectDelayForConstant(attempts) == reconnectDelay

ReconnectDelayFor(attempts) == reconnectDelay * attempts

\* mutant: the retry test lets the counter pass the maximum
CanRetryInclusive(attempts) == attempts <= maxReconnectAttempts

CanRetry(attempts) == attempts < maxReconnectAttempts

\* mutant: a disconnect is counted but no reconnect is scheduled
handleDisconnectForgets(s) ==
  IF ~s.running THEN s
  ELSE IF CanRetry(s.reconnectAttempts)
  THEN [s EXCEPT !.reconnectAttempts = s.reconnectAttempts + 1]
  ELSE [s EXCEPT !.fx.lost = 1]

handleDisconnect(s) ==
  IF ~s.running THEN s
  ELSE IF CanRetry(s.reconnectAttempts)
  THEN LET n == s.reconnectAttempts + 1
           delay == ReconnectDelayFor(n)
       IN [s EXCEPT !.reconnectAttempts = n,
                    !.reconnectTimers = @ (+) SetToBag({[stale |-> FALSE]}),
                    !.fx.sched = delay]
  ELSE [s EXCEPT !.fx.lost = 1]

\* mutant: start() without its early return for a running client
startUnguarded(s) ==
  connect([s EXCEPT !.running = TRUE], "start")

start(s) ==
  IF s.running THEN [s EXCEPT !.fx.noop = TRUE, !.fx.startResult = "resolved"]
  ELSE connect([s EXCEPT !.running = TRUE], "start")

\* mutant: stop() without its early return for a client that is not running
stopUnguarded(s) ==
  LET s1 == [s EXCEPT !.running = FALSE]
      s2 == IF s1.pingInterval # 0
            THEN [s1 EXCEPT !.pingTimer[s1.pingInterval] = FALSE, !.pingInterval = 0]
            ELSE s1
      s3 == IF s2.connectionTimeout # 0
            THEN [s2 EXCEPT !.connTimer[s2.connectionTimeout] = FALSE, !.connectionTimeout = 0]
            ELSE s2
      s4 == IF s3.ws # 0
            THEN [wsClose(s3, s3.ws) EXCEPT !.ws = 0]
            ELSE s3
  IN [s4 EXCEPT !.subscribedSymbols = <<>>]

stop(s) ==
  IF ~s.running THEN [s EXCEPT !.fx.noop = TRUE]
  ELSE LET s1 == [s EXCEPT !.running = FALSE]
           s2 == IF s1.pingInterval # 0
                 THEN [s1 EXCEPT !.pingTimer[s1.pingInterval] = FALSE, !.pingInterval = 0]
                 ELSE s1
           s3 == IF s2.connectionTimeout # 0
                 THEN [s2 EXCEPT !.connTimer[s2.connectionTimeout] = FALSE, !.connectionTimeout = 0]
                 ELSE s2
           s4 == IF s3.ws # 0
                 THEN [wsClose(s3, s3.ws) EXCEPT !.ws = 0]
                 ELSE s3
       IN [s4 EXCEPT !.subscribedSymbols = <<>>]

\* ------------------------------------------------------ inbound messages
\* the entries a trade batch may carry: {s, p, v, t, c}
Entries ==
  {[s |-> "AAPL", p |-> 150, v |-> 100, t |-> 1, c |-> <<"1">>],
   [s |-> "MSFT", p |-> 300, v |-> 200, t |-> 2, c |-> <<>>]}

Batches == UNION {[1 .. n -> Entries] : n \in 0 .. MaxBatch}

\* the text frames the transport may deliver: text that JSON.parse rejects,
\* {"type":"ping"}, a frame of another type, a trade frame without data, and
\* the trade batches
Frames ==
  {[parses |-> FALSE, type |-> "", hasData |-> FALSE, data |-> <<>>],
   [parses |-> TRUE, type |-> "ping", hasData |-> FALSE, data |-> <<>>],
   [parses |-> TRUE, type |-> "news", hasData |-> TRUE,
    data |-> <<CHOOSE e \in Entries : e.s = "AAPL">>],
   [parses |-> TRUE, type |-> "trade", hasData |-> FALSE, data |-> <<>>]}
  \cup {[parses |-> TRUE, type |-> "trade", hasData |-> TRUE, data |-> b] : b \in Batches}

\* mutant: the tick takes its price from the volume field
MarketTickSwapped(trade) ==
  [symbol |-> trade.s, price |-> trade.v, volume |-> trade.v, timestamp |-> trade.t]

MarketTick(trade) ==
  [symbol |-> trade.s, price |-> trade.p, volume |-> trade.v, timestamp |-> trade.t]

\* eventBus.emit('market:tick', tick)
emitTick(s, tick) == [s EXCEPT !.fx.ticks = Append(@, tick)]

\* message.data.forEach(trade => ...)
RECURSIVE forEachTrade(_, _)
forEachTrade(s, data) ==
  IF data = <<>> THEN s
  ELSE forEachTrade(emitTick(s, MarketTick(Head(data))), Tail(data))

\* mutant: a frame that is not a trade batch closes the transport
handleMessageStrict(s, t, frame) ==
  IF ~frame.parses THEN wsClose(s, t)
  ELSE IF frame.type = "ping" THEN wsClose(s, t)
  ELSE IF frame.type = "trade" /\ frame.hasData THEN forEachTrade(s, frame.data)
  ELSE wsClose(s, t)

\* handleMessage(data) of the transport t: a JSON.parse failure is caught
handleMessage(s, t, frame) ==
  IF ~frame.parses THEN s
  ELSE IF frame.type = "ping" THEN s
  ELSE IF frame.type = "trade" /\ frame.hasData THEN forEachTrade(s, frame.data)
  ELSE s

\* ws.on('open'): the library has set readyState to OPEN
openHandler(s, t) ==
  LET s0 == [s EXCEPT !.sock[t].rs = "OPEN"]
      s1 == [s0 EXCEPT !.reconnectAttempts = 0]
      s2 == IF s1.connectionTimeout # 0
            THEN [s1 EXCEPT !.connTimer[s1.connectionTimeout] = FALSE, !.connectionTimeout = 0]
            ELSE s1
      s3 == resubscribeAll(s2)
      s4 == setupPingInterval(s3, t)
  IN resolve(s4, t)

\* mutant: the error handler clears the keepalive as the close handler does
errorHandlerClearsPing(s, t, staysOpen) ==
  LET rs2 == IF s.sock[t].rs = "OPEN" /\ staysOpen THEN "OPEN" ELSE "CLOSING"
      s0 == [s EXCEPT !.sock[t].rs = rs2]
      s1 == IF s0.pingInterval # 0
            THEN [s0 EXCEPT !.pingTimer[s0.pingInterval] = FALSE, !.pingInterval = 0]
            ELSE s0
  IN IF s1.ws = 0 \/ readyState(s1, s1.ws) # "OPEN" THEN reject(s1, t, "error") ELSE s1

\* ws.on('error'): a socket that has not opened is CLOSING when the library
\* emits the error; an open one is left OPEN or put to CLOSING (staysOpen)
\* before its handler runs
errorHandler(s, t, staysOpen) ==
  LET rs2 == IF s.sock[t].rs = "OPEN" /\ staysOpen THEN "OPEN" ELSE "CLOSING"
      s0 == [s EXCEPT !.sock[t].rs = rs2]
  IN IF s0.ws = 0 \/ readyState(s0, s0.ws) # "OPEN" THEN reject(s0, t, "error") ELSE s0

\* ws.on('close'): the library has set readyState to CLOSED
closeHandler(s, t) ==
  LET s0 == [s EXCEPT !.sock[t].rs = "CLOSED", !.sock[t].closedBy = "none"]
      s1 == IF s0.pingInterval # 0
            THEN [s0 EXCEPT !.pingTimer[s0.pingInterval] = FALSE, !.pingInterval = 0]
            ELSE s0
  IN handleDisconnect(s1)

\* the setTimeout callback armed by the connect() of slot t
connectionTimeoutFired(s, t) ==
  LET s0 == [s EXCEPT !.connTimer[t] = FALSE]
  IN IF s0.ws # 0 /\ readyState(s0, s0.ws) # "OPEN"
     THEN reject(wsTerminate(s0, s0.ws), t, "timeout")
     ELSE s0

\* the setTimeout callback scheduled by handleDisconnect
reconnectTimerFired(s, tm) ==
  LET s0 == [s EXCEPT !.reconnectTimers = @ (-) SetToBag({tm}), !.fx.stale = tm.stale]
  IN IF s0.running THEN connect(s0, "reconnect") ELSE s0

\* the setInterval callback created by the open of slot t
pingIntervalFired(s, t) ==
  IF s.ws # 0 /\ readyState(s, s.ws) = "OPEN"
  THEN [s EXCEPT !.fx.pings = 1]
  ELSE s

\* ---------------------------------------------------- NotificationService
\* the events the service listens to: removeEventListeners() removes the
\* listeners of the first four and leaves those of news:article
Events == {"trading:signal", "trading:executed", "trading:execution-failed",
           "market:connection-lost", "news:article"}
RemovedOnStop == Events \ {"news:article"}

NoNotifStep == [op |-> "init", wasRunning |-> FALSE, remaining |-> <<>>,
                queued |-> <<>>, sent |-> <<>>, delay |-> 0]

\* the service after construction
NotifNew ==
  [running |-> FALSE, messageQueue |-> <<>>, processing |-> FALSE,
   listeners |-> [e \in Events |-> 0], loops |-> 0,
   queued |-> <<>>, sent |-> <<>>, step |-> NoNotifStep]

\* the placeholder send: the message is logged as sent, nothing is thrown
sendEmail(n, message) ==
  [n EXCEPT !.sent = Append(@, message),
            !.step.sent = Append(@, message)]

\* the while loop of processQueue up to its next await: either one message
\* is shifted and sent and the loop is suspended for sendDelay, or the loop
\* ends and processing is reset
processLoop(n) ==
  IF Len(n.messageQueue) > 0 /\ n.running
  THEN LET message == Head(n.messageQueue)
           shifted == [n EXCEPT !.messageQueue = Tail(@)]
       IN [sendEmail(shifted, message) EXCEPT !.loops = @ + 1,
                                              !.step.delay = sendDelay]
  ELSE [n EXCEPT !.processing = FALSE]

\* mutant: processQueue without its processing guard
processQueueUnguarded(n) ==
  IF Len(n.messageQueue) = 0 THEN n
  ELSE processLoop([n EXCEPT !.processing = TRUE])

processQueue(n) ==
  IF n.processing \/ Len(n.messageQueue) = 0 THEN n
  ELSE processLoop([n EXCEPT !.processing = TRUE])

queueMessage(n, message) ==
  LET pushed == [n EXCEPT !.messageQueue = Append(@, message),
                          !.queued = Append(@, message),
                          !.step.queued = Append(@, message)]
  IN IF ~pushed.processing THEN processQueue(pushed) ELSE pushed

setupEventListeners(n) ==
  [n EXCEPT !.listeners = [e \in Events |-> @[e] + 1]]

removeEventListeners(n) ==
  [n EXCEPT !.listeners = [e \in Events |-> IF e \in RemovedOnStop THEN 0 ELSE @[e]]]

notifStart(n) ==
  IF n.running THEN n
  ELSE setupEventListeners([n EXCEPT !.running = TRUE])

notifStop(n) ==
  IF ~n.running THEN n
  ELSE LET stopped == [n EXCEPT !.running = FALSE,
                                !.step.remaining = n.messageQueue]
           drained == IF Len(stopped.messageQueue) > 0
                      THEN processQueue(stopped) ELSE stopped
       IN removeEventListeners(drained)

\* the message a handler builds for an event; ids number the messages in the
\* order they are created
NewMessage(n, event) ==
  [id |-> Len(n.queued) + 1, type |-> event]

\* eventBus.emit(event): every registered listener runs its handler, which
\* queues one message (the news handler only for a relevant article)
RECURSIVE emitTo(_, _, _, _)
emitTo(n, event, count, relevant) ==
  IF count = 0 THEN n
  ELSE emitTo(IF event = "news:article" /\ ~relevant THEN n
              ELSE queueMessage(n, NewMessage(n, event)),
              event, count - 1, relevant)

\* ---------------------------------------------------------------- actions
\* what the server holds for a connection after it received the frames
RECURSIVE ApplyFrames(_, _)
ApplyFrames(subs, frames) ==
  IF frames = <<>> THEN subs
  ELSE LET f == Head(frames)
       IN ApplyFrames(IF f.type = "subscribe" THEN subs \cup {f.symbol}
                      ELSE subs \ {f.symbol},
                      Tail(frames))

Commit(s, op, t) ==
  /\ wsUrlValid' = s.wsUrlValid
  /\ running' = s.running
  /\ ws' = s.ws
  /\ reconnectAttempts' = s.reconnectAttempts
  /\ subscribedSymbols' = s.subscribedSymbols
  /\ pingInterval' = s.pingInterval
  /\ connectionTimeout' = s.connectionTimeout
  /\ sock' = s.sock
  /\ connTimer' = s.connTimer
  /\ pingTimer' = s.pingTimer
  /\ last' = [s.fx EXCEPT
                !.op = op, !.t = t,
                !.wasRunning = running,
                !.changed = ([s EXCEPT !.fx = NoEffects] # Cur),
                !.fieldsChanged =
                   ([s EXCEPT !.fx = NoEffects, !.sock = sock] # Cur),
                !.timersDelta = BagCardinality(s.reconnectTimers)
                                - BagCardinality(reconnectTimers)]
  /\ lostState' = IF s.fx.lost > 0 THEN "failed"
                  ELSE IF op = "start" THEN "ok"
                  ELSE IF op = "stop" /\ lostState = "failed" THEN "failedStopped"
                  ELSE lostState
  /\ serverSubs' =
       LET onCurrent == SelectSeq(s.fx.frames, LAMBDA f : f.to = s.ws)
       IN ApplyFrames(IF s.fx.newWs # 0 \/ s.ws # ws THEN {} ELSE serverSubs,
                      onCurrent)
  /\ LET kept(h) == IF s.fx.newWs = 0 THEN h
                     ELSE SelectSeq(h, LAMBDA r : r.conn # s.fx.newWs)
         tag(x) == [i \in 1 .. Len(x) |-> [conn |-> t, item |-> x[i]]]
     IN /\ inbound' = kept(inbound) \o tag(s.fx.received)
        /\ ticks' = kept(ticks) \o tag(s.fx.ticks)
  /\ userState' = IF op = "start" THEN "started"
                  ELSE IF op = "stop" THEN "idle" ELSE userState
  /\ disconnects' = IF op = "open" THEN 0
                    ELSE IF op = "close" /\ running
                    THEN Min(disconnects + 1, maxReconnectAttempts + 2)
                    ELSE disconnects
  /\ notif' = notif

\* reconnect timers that were pending when stop() ran are marked stale
MarkStale(bag) ==
  IF BagCardinality(bag) = 0 THEN bag
  ELSE [y \in {[stale |-> TRUE]} |-> BagCardinality(bag)]

Start ==
  /\ running \/ CanConnect(Cur)
  /\ Commit(start(Cur), "start", 0)
  /\ reconnectTimers' = reconnectTimers

Stop ==
  /\ Commit(stop(Cur), "stop", 0)
  /\ reconnectTimers' = IF running THEN MarkStale(reconnectTimers) ELSE reconnectTimers

Subscribe(symbol) ==
  /\ Commit([subscribe(Cur, symbol) EXCEPT !.fx.sym = symbol], "subscribe", 0)
  /\ reconnectTimers' = reconnectTimers

Unsubscribe(symbol) ==
  /\ Commit([unsubscribe(Cur, symbol) EXCEPT !.fx.sym = symbol], "unsubscribe", 0)
  /\ reconnectTimers' = reconnectTimers

WsOpen(t) ==
  /\ sock[t].rs = "CONNECTING"
  /\ Commit(openHandler(Cur, t), "open", t)
  /\ reconnectTimers' = reconnectTimers

WsError(t, staysOpen) ==
  /\ sock[t].rs = "OPEN"
  /\ Commit(errorHandler(Cur, t, staysOpen), "error", t)
  /\ reconnectTimers' = reconnectTimers

\* the reconnect timers a close event may add stay within the bound
CloseWithinBounds ==
  \/ ~running
  \/ ~CanRetry(reconnectAttempts)
  \/ BagCardinality(reconnectTimers) < MaxReconnectTimers

\* a connect attempt fails, or an aborted handshake ends: 'error', then 'close'
WsConnectFailed(t) ==
  /\ sock[t].rs \in {"CONNECTING", "ABORTING"}
  /\ CloseWithinBounds
  /\ LET s == closeHandler(errorHandler(Cur, t, FALSE), t)
     IN /\ Commit([s EXCEPT !.fx.connectFailed = TRUE], "close", t)
        /\ reconnectTimers' = s.reconnectTimers

WsClose(t) ==
  /\ sock[t].rs \in {"OPEN", "CLOSING"}
  /\ CloseWithinBounds
  /\ LET s == closeHandler(Cur, t)
     IN /\ Commit(s, "close", t)
        /\ reconnectTimers' = s.reconnectTimers

ConnectionTimeout(t) ==
  /\ connTimer[t]
  /\ Commit(connectionTimeoutFired(Cur, t), "connectTimeout", t)
  /\ reconnectTimers' = reconnectTimers

ReconnectTimer(tm) ==
  /\ BagIn(tm, reconnectTimers)
  /\ ~running \/ CanConnect(Cur)
  /\ LET s == reconnectTimerFired(Cur, tm)
     IN /\ Commit(s, "reconnectTimer", 0)
        /\ reconnectTimers' = s.reconnectTimers

WsMessage(t, frame) ==
  /\ sock[t].rs \in {"OPEN", "CLOSING"}
  /\ Len(inbound) < MaxFrames
  /\ Commit([handleMessage(Cur, t, frame) EXCEPT !.fx.received = <<frame>>],
            "message", t)
  /\ reconnectTimers' = reconnectTimers

PingInterval(t) ==
  /\ pingTimer[t]
  /\ Commit(pingIntervalFired(Cur, t), "pingInterval", t)
  /\ reconnectTimers' = reconnectTimers

Init ==
  /\ wsUrlValid \in BOOLEAN
  /\ running = FALSE
  /\ ws = 0
  /\ reconnectAttempts = 0
  /\ subscribedSymbols = <<>>
  /\ pingInterval = 0
  /\ connectionTimeout = 0
  /\ sock = [t \in Slots |-> NoSocket]
  /\ connTimer = [t \in Slots |-> FALSE]
  /\ pingTimer = [t \in Slots |-> FALSE]
  /\ reconnectTimers = EmptyBag
  /\ disconnects = 0
  /\ lostState = "ok"
  /\ userState = "idle"
  /\ serverSubs = {}
  /\ inbound = <<>>
  /\ ticks = <<>>
  /\ last = NoEffects
  /\ notif = NotifNew

Next ==
  \/ Start
  \/ Stop
  \/ \E symbol \in Symbols : Subscribe(symbol)
  \/ \E symbol \in Symbols : Unsubscribe(symbol)
  \/ \E t \in Slots : WsOpen(t)
  \/ \E t \in Slots, staysOpen \in BOOLEAN : WsError(t, staysOpen)
  \/ \E t \in Slots : WsConnectFailed(t)
  \/ \E t \in Slots : WsClose(t)
  \/ \E t \in Slots : ConnectionTimeout(t)
  \/ \E stale \in BOOLEAN : ReconnectTimer([stale |-> stale])
  \/ \E t \in Slots : PingInterval(t)

Spec == Init /\ [][Next]_vars

\* handleMessage reads and writes no field of the service: the delivery of
\* inbound frames is composed with the connection lifecycle only
MessageNext ==
  \/ Start
  \/ Stop
  \/ \E t \in Slots : WsOpen(t)
  \/ \E t \in Slots : WsClose(t)
  \/ \E t \in Slots, frame \in Frames : WsMessage(t, frame)

MessageSpec == Init /\ [][MessageNext]_vars

\* the connection lifecycle while stop() is not called (subscriptions and
\* keepalive pings take no part in the recovery from a disconnect)
LiveNext ==
  \/ Start
  \/ \E t \in Slots : WsOpen(t)
  \/ \E t \in Slots, staysOpen \in BOOLEAN : WsError(t, staysOpen)
  \/ \E t \in Slots : WsConnectFailed(t)
  \/ \E t \in Slots : WsClose(t)
  \/ \E t \in Slots : ConnectionTimeout(t)
  \/ \E stale \in BOOLEAN : ReconnectTimer([stale |-> stale])

\* the event loop runs every timer callback that is due, and a transport
\* that was terminated or is closing delivers its close event
Fairness ==
  /\ \A t \in Slots : WF_vars(ConnectionTimeout(t))
  /\ \A stale \in BOOLEAN : WF_vars(ReconnectTimer([stale |-> stale]))
  /\ \A t \in Slots : WF_vars(sock[t].rs = "ABORTING" /\ WsConnectFailed(t))
  /\ \A t \in Slots : WF_vars(sock[t].rs = "CLOSING" /\ WsClose(t))

LiveSpec == Init /\ [][LiveNext]_vars /\ Fairness

\* -------------------------------------------- NotificationService steps
NotifCommit(n, op) ==
  notif' = [n EXCEPT !.step.op = op, !.step.wasRunning = notif.running]

NotifBegin == [notif EXCEPT !.step = NoNotifStep]

NotifStart ==
  /\ notif.listeners["news:article"] < MaxListeners
  /\ NotifCommit(notifStart(NotifBegin), "start")
  /\ UNCHANGED market

NotifStop ==
  /\ NotifCommit(notifStop(NotifBegin), "stop")
  /\ UNCHANGED market

Emit(event, relevant) ==
  /\ notif.listeners[event] > 0
  /\ Len(notif.queued) + notif.listeners[event] <= MaxMessages
  /\ NotifCommit(emitTo(NotifBegin, event, notif.listeners[event], relevant), "emit")
  /\ UNCHANGED market

\* the sendDelay timer of a suspended processQueue loop fires
ProcessQueueResume ==
  /\ notif.loops > 0
  /\ NotifCommit(processLoop([NotifBegin EXCEPT !.loops = @ - 1]), "resume")
  /\ UNCHANGED market

NotifyNext ==
  \/ NotifStart
  \/ NotifStop
  \/ \E event \in Events, relevant \in BOOLEAN : Emit(event, relevant)
  \/ ProcessQueueResume

\* the event loop runs the timer callback of a suspended loop when it is due
NotifyFairness == WF_vars(ProcessQueueResume)

NotifySpec == Init /\ [][NotifyNext]_vars /\ NotifyFairness

\* ----------------------------------------------------------------- claims
\* the subscribe frames of a replay: one per symbol, all on transport t
IsReplayOf(frames, symbols, t) ==
  /\ Len(frames) = Len(symbols)
  /\ \A i \in 1 .. Len(frames) :
       /\ frames[i].to = t
       /\ frames[i].type = "subscribe"
       /\ frames[i].symbol \in Range(symbols)
  /\ \A sym \in Range(symbols) :
       Cardinality({i \in 1 .. Len(frames) : frames[i].symbol = sym}) = 1

\* C1: on every successful open the replay sends exactly one subscribe frame,
\* on the transport that opened, for each symbol that is in the
\* SubscriptionSet at open time, and no other subscribe frame.
C1_ReplayExactlySubscriptionSet ==
  [][last'.op = "open" => IsReplayOf(last'.frames, subscribedSymbols, last'.t)]_vars

\* C2: close, error, reconnect-timer and open events never change the
\* SubscriptionSet, and the open of a transport created by a reconnect sends
\* a subscribe frame on that transport for every symbol of the set.
C2_SetSurvivesAndIsReplayed ==
  [][/\ last'.op \in {"close", "error", "reconnectTimer", "open"}
        => subscribedSymbols' = subscribedSymbols
     /\ (last'.op = "open" /\ sock[last'.t].by = "reconnect")
        => \A sym \in Range(subscribedSymbols) :
             \E i \in 1 .. Len(last'.frames) :
               last'.frames[i] = [to |-> last'.t, type |-> "subscribe", symbol |-> sym]
    ]_vars

\* C3: the k-th consecutive disconnect handled while running since the last
\* open schedules exactly one reconnect with delay 5*k for k = 1..5; the 6th
\* emits connection-lost and schedules nothing.
C3_LinearBackoffThenLost ==
  (last.op = "close" /\ last.wasRunning) =>
    LET k == disconnects
    IN /\ k \in 1 .. 5 =>
            /\ last.sched = 5 * k
            /\ last.timersDelta = 1
            /\ last.lost = 0
       /\ k = 6 =>
            /\ last.lost = 1
            /\ last.sched = 0
            /\ last.timersDelta = 0

\* the 6th consecutive disconnect has been handled
C3_Witness ==
  last.op = "close" /\ last.wasRunning /\ disconnects = 6 /\ last.lost = 1

\* C4: once connection-lost has been emitted, no step other than a start()
\* call opens a transport, schedules a reconnect or emits connection-lost.
C4_NothingAfterLostUntilStart ==
  [][(lostState \in {"failed", "failedStopped"} /\ last'.op # "start") =>
       /\ last'.newWs = 0
       /\ last'.sched = 0
       /\ last'.lost = 0
    ]_vars

\* the connection state of the design, read off the service and its transport
ConnectionState ==
  IF userState = "idle" THEN "Idle"
  ELSE IF ws # 0 /\ sock[ws].rs = "OPEN" THEN "Open"
  ELSE IF lostState = "failed" THEN "Failed"
  ELSE IF BagCardinality(reconnectTimers) > 0 THEN "Reconnecting"
  ELSE "Connecting"

\* C5: isRunning() is true exactly in the states Connecting, Open and
\* Reconnecting; it is false in Failed and after stop().
C5_IsRunningIffActiveState ==
  isRunning <=> ConnectionState \in {"Connecting", "Open", "Reconnecting"}

\* C6: a start() call made in the Failed state opens a new transport.
C6_StartRestartsFailedClient ==
  [][(ConnectionState = "Failed" /\ last'.op = "start") => last'.newWs # 0]_vars

\* C7: after stop() on a running client isRunning() is false, the transport
\* is closed and released, no keepalive interval is active and the
\* SubscriptionSet is empty.
C7_StopReleasesEverything ==
  [][(running /\ last'.op = "stop") =>
       /\ ~running'
       /\ ws' = 0
       /\ ws # 0 => sock'[ws].rs \in {"ABORTING", "CLOSING", "CLOSED"}
       /\ pingInterval' = 0
       /\ \A t \in Slots : ~pingTimer'[t]
       /\ subscribedSymbols' = <<>>
    ]_vars

\* C8: stop() on a client that is not running (such as the second of two
\* stop() calls) changes nothing, closes no transport and emits no event.
C8_StopIdempotent ==
  (last.op = "stop" /\ ~last.wasRunning) =>
    /\ ~last.changed
    /\ last.closed = 0
    /\ last.lost = 0
    /\ last.frames = <<>>
    /\ last.startResult = "none"

\* a stop() call has found a client that ran before already stopped
C8_Witness ==
  /\ last.op = "stop"
  /\ ~last.wasRunning
  /\ \E t \in Slots : sock[t].rs # "NONE"

\* C9: a reconnect timer that was pending when stop() ran never opens a
\* transport.
C9_StopCancelsReconnectTimer ==
  [][(last'.op = "reconnectTimer" /\ last'.stale) => last'.newWs = 0]_vars

\* C10: after stop() completes the reconnect counter is 0.
C10_StopResetsCounter ==
  last.op = "stop" => reconnectAttempts = 0

\* C11: whenever a start() call returns success the current transport is
\* Open, the reconnect counter is 0, the keepalive interval is running and the
\* step that completed it sent a subscribe frame for every symbol of the
\* SubscriptionSet; no start() returns success while still connecting.
C11_StartSucceedsOnlyWhenOpen ==
  last.startResult = "resolved" =>
    /\ ws # 0
    /\ sock[ws].rs = "OPEN"
    /\ reconnectAttempts = 0
    /\ pingInterval # 0
    /\ pingTimer[pingInterval]
    /\ last.op = "open"
    /\ \A sym \in Range(subscribedSymbols) :
         \E i \in 1 .. Len(last.frames) :
           last.frames[i].type = "subscribe" /\ last.frames[i].symbol = sym

\* C12: a start() call made while Connecting, Open or Reconnecting fails with
\* an AlreadyRunning error.
C12_StartWhileActiveFails ==
  [][(/\ ConnectionState \in {"Connecting", "Open", "Reconnecting"}
      /\ last'.op = "start")
     => last'.startResult = "AlreadyRunning"]_vars

\* C13: start() on a running client opens no transport and leaves the
\* transports, the SubscriptionSet, the reconnect counter and every timer
\* unchanged.
C13_StartWhileRunningChangesNothing ==
  (last.op = "start" /\ last.wasRunning) =>
    /\ ~last.changed
    /\ last.newWs = 0
    /\ last.timersDelta = 0
    /\ last.timeout = 0
    /\ last.interval = 0
    /\ last.sched = 0
    /\ last.closed = 0
    /\ last.frames = <<>>

\* a start() call has found the client running with a transport
C13_Witness ==
  /\ last.op = "start"
  /\ last.wasRunning
  /\ ws # 0
  /\ sock[ws].rs \in {"CONNECTING", "OPEN"}

\* C14: the connect of start() arms a timeout of 10, and when that timeout
\* fires with the transport of start() still connecting, start() fails with
\* a timeout error and that transport is terminated.
C14_ConnectTimeoutFailsStart ==
  [][/\ (last'.op = "start" /\ last'.newWs # 0) => last'.timeout = 10
     /\ (/\ last'.op = "connectTimeout"
         /\ sock[last'.t].rs = "CONNECTING"
         /\ sock[last'.t].awaited)
        => /\ last'.startResult = "timeout"
           /\ last'.closed = last'.t
           /\ sock'[last'.t].rs = "ABORTING"
    ]_vars

\* C15: a connect made by the reconnect policy arms no connect timeout, and
\* no connect timeout terminates a transport created by a reconnect.
C15_NoConnectTimeoutOnReconnect ==
  [][/\ last'.op = "reconnectTimer" => last'.timeout = 0
     /\ (last'.op = "connectTimeout" /\ last'.closed # 0)
        => sock[last'.closed].by # "reconnect"
    ]_vars

\* C16: when the transport of a pending start() fails before it opened,
\* start() fails with the error, the reconnect counter is not incremented
\* and no reconnect is scheduled.
C16_InitialConnectErrorIsNotDisconnect ==
  [][(/\ last'.op = "close"
      /\ last'.connectFailed
      /\ sock[last'.t].rs = "CONNECTING"
      /\ sock[last'.t].awaited)
     => /\ last'.startResult = "error"
        /\ reconnectAttempts' = reconnectAttempts
        /\ last'.sched = 0
        /\ last'.timersDelta = 0
    ]_vars

\* C17: the handler of an error event on an open transport changes no field
\* and no timer of the service, closes nothing, schedules no reconnect, emits
\* nothing and settles no caller's start(); the transport is not CLOSED.
C17_ErrorWhileOpenChangesNothing ==
  last.op = "error" =>
    /\ ~last.fieldsChanged
    /\ last.timersDelta = 0
    /\ last.sched = 0
    /\ last.lost = 0
    /\ last.closed = 0
    /\ last.frames = <<>>
    /\ last.startResult = "none"
    /\ sock[last.t].rs \in {"OPEN", "CLOSING"}

\* an error event was handled on the open current transport while its
\* keepalive ran and symbols were subscribed
C17_Witness ==
  /\ last.op = "error"
  /\ ws = last.t
  /\ sock[ws].rs = "OPEN"
  /\ pingTimer[ws]
  /\ subscribedSymbols # <<>>

\* C18: after subscribe(symbol) the symbol is in the list of subscribed
\* symbols, in every state, running or not.
C18_SubscribeAlwaysAdds ==
  last.op = "subscribe" => last.sym \in Range(getSubscribedSymbols)

\* C19: subscribe(s) on an open connection for a symbol already in the
\* SubscriptionSet sends no frame and leaves the set as it is.
C19_SubscribeDuplicateSafe ==
  [][(/\ last'.op = "subscribe"
      /\ ConnectionState = "Open"
      /\ last'.sym \in Range(subscribedSymbols))
     => /\ last'.frames = <<>>
        /\ subscribedSymbols' = subscribedSymbols
    ]_vars

\* C20: every step that writes a subscribe or unsubscribe frame runs on a
\* running client and writes it to the current transport, which is open; a
\* subscribe or unsubscribe call on a client that is not running changes
\* nothing.
C20_FramesOnlyWhenRunningAndOpen ==
  /\ last.frames # <<>> =>
       /\ running
       /\ ws # 0
       /\ sock[ws].rs = "OPEN"
       /\ \A i \in 1 .. Len(last.frames) : last.frames[i].to = ws
  /\ (last.op \in {"subscribe", "unsubscribe"} /\ ~last.wasRunning) =>
       ~last.changed

\* subscribe() was called while the current transport was connecting: the
\* symbol is in the set and no frame was written
C20_Witness ==
  /\ last.op = "subscribe"
  /\ running
  /\ ws # 0
  /\ sock[ws].rs = "CONNECTING"
  /\ last.sym \in Range(subscribedSymbols)
  /\ last.frames = <<>>

\* C21: after unsubscribe(symbol) the symbol is not in the SubscriptionSet, in
\* every state; a call made while Open writes exactly one unsubscribe frame
\* for the symbol on the current transport; and an open replays only symbols
\* that are in the set.
C21_UnsubscribeRemoves ==
  /\ last.op = "unsubscribe" =>
       /\ last.sym \notin Range(getSubscribedSymbols)
       /\ ConnectionState = "Open" =>
            last.frames = <<[to |-> ws, type |-> "unsubscribe", symbol |-> last.sym]>>
  /\ last.op = "open" =>
       \A i \in 1 .. Len(last.frames) :
         last.frames[i].symbol \in Range(subscribedSymbols)

\* unsubscribe() has removed a queued symbol while the transport was connecting
C21_Witness ==
  /\ last.op = "unsubscribe"
  /\ last.changed
  /\ ws # 0
  /\ sock[ws].rs = "CONNECTING"
  /\ last.frames = <<>>

\* C22: whenever the client is Open, the symbols with an active server-side
\* subscription on the current transport are exactly the SubscriptionSet.
C22_ServerMatchesSubscriptionSet ==
  ConnectionState = "Open" => serverSubs = Range(subscribedSymbols)

\* the transport of a reconnect is open with a symbol subscribed before the
\* disconnect
C22_Witness ==
  /\ ConnectionState = "Open"
  /\ sock[ws].by = "reconnect"
  /\ last.op = "open"
  /\ subscribedSymbols # <<>>

\* C23: a ping is sent only while Open; a close event of the current
\* transport and stop() leave no keepalive interval active; and while the
\* client is Open exactly one keepalive interval is active, the one created
\* by the open of the current transport.
C23_KeepaliveOnlyWhileOpen ==
  /\ last.pings > 0 => ConnectionState = "Open"
  /\ (last.op = "stop" \/ (last.op = "close" /\ last.t = ws)) =>
       \A t \in Slots : ~pingTimer[t]
  /\ ConnectionState = "Open" =>
       /\ pingInterval = ws
       /\ \A t \in Slots : pingTimer[t] <=> t = ws

\* C26: the close event of a transport that stop() closed never increments
\* the reconnect counter, schedules a reconnect or emits connection-lost.
C26_StoppedTransportCloseIsNotDisconnect ==
  [][(last'.op = "close" /\ sock[last'.t].closedBy = "close") =>
       /\ reconnectAttempts' = reconnectAttempts
       /\ last'.sched = 0
       /\ last'.timersDelta = 0
       /\ last'.lost = 0
    ]_vars

\* the transports that are connecting or open
LiveTransports == {t \in Slots : sock[t].rs \in {"CONNECTING", "OPEN"}}

\* C27: at most one transport is connecting or open at any time.
C27_AtMostOneLiveTransport ==
  Cardinality(LiveTransports) <= 1

\* C28: a connect timeout that terminates a transport terminates the one
\* created by the connect() that armed it.
C28_TimeoutAbortsOwnTransport ==
  (last.op = "connectTimeout" /\ last.closed # 0) => last.closed = last.t

\* C29: after a start() call has failed the client is not running and no
\* reconnect is pending.
C29_FailedStartLeavesNotRunning ==
  last.startResult \in {"error", "timeout"} =>
    /\ ~isRunning
    /\ BagCardinality(reconnectTimers) = 0

\* the frames received on, and the ticks emitted for, one connection
OnConn(h, conn) ==
  LET mine == SelectSeq(h, LAMBDA r : r.conn = conn)
  IN [i \in 1 .. Len(mine) |-> mine[i].item]

IsTradeBatch(frame) == frame.parses /\ frame.type = "trade" /\ frame.hasData

\* the entries of the trade batches among the frames, in arrival order
RECURSIVE TradeEntries(_)
TradeEntries(frames) ==
  IF frames = <<>> THEN <<>>
  ELSE (IF IsTradeBatch(Head(frames)) THEN Head(frames).data ELSE <<>>)
       \o TradeEntries(Tail(frames))

\* a tick carries the fields s, p, v, t of the entry and nothing else
IsTickOf(tick, entry) ==
  /\ DOMAIN tick = {"symbol", "price", "volume", "timestamp"}
  /\ tick.symbol = entry.s
  /\ tick.price = entry.p
  /\ tick.volume = entry.v
  /\ tick.timestamp = entry.t

\* C24: a trade batch of K entries emits K ticks, the i-th one carrying the
\* fields of the i-th entry, and the ticks emitted for a connection are those
\* of the entries of its trade batches, in arrival order.
C24_OneTickPerEntryInOrder ==
  /\ (last.op = "message" /\ IsTradeBatch(last.received[1])) =>
       LET data == last.received[1].data
       IN /\ Len(last.ticks) = Len(data)
          /\ \A i \in 1 .. Len(data) : IsTickOf(last.ticks[i], data[i])
  /\ \A conn \in Slots :
       LET entries == TradeEntries(OnConn(inbound, conn))
           emitted == OnConn(ticks, conn)
       IN /\ Len(emitted) = Len(entries)
          /\ \A i \in 1 .. Len(entries) : IsTickOf(emitted[i], entries[i])

\* one connection has received two trade batches, the first of two different
\* entries
C24_Witness ==
  \E conn \in Slots :
    LET got == OnConn(inbound, conn)
    IN /\ Len(got) = 2
       /\ IsTradeBatch(got[1])
       /\ IsTradeBatch(got[2])
       /\ Len(got[1].data) = 2
       /\ got[1].data[1] # got[1].data[2]
       /\ Len(got[2].data) > 0
       /\ Len(OnConn(ticks, conn)) > 2

\* C25: a frame that is not a trade batch (unparsable text, a ping, another
\* type, a trade frame without data) emits no tick, fails no call and changes
\* no field, transport or timer.
C25_OtherFramesAreDropped ==
  (last.op = "message" /\ ~IsTradeBatch(last.received[1])) =>
    /\ last.ticks = <<>>
    /\ ~last.changed
    /\ last.timersDelta = 0
    /\ last.closed = 0
    /\ last.lost = 0
    /\ last.sched = 0
    /\ last.frames = <<>>
    /\ last.startResult = "none"

\* unparsable text was received on the open current transport
C25_Witness ==
  /\ last.op = "message"
  /\ ~last.received[1].parses
  /\ ws = last.t
  /\ sock[ws].rs = "OPEN"
  /\ pingTimer[ws]

\* C30: every disconnect handled while running is followed by an open
\* transport, by connection-lost, or by stop().
C30_RecoveryResolves ==
  (last.op = "close" /\ last.wasRunning)
    ~> ((\E t \in Slots : sock[t].rs = "OPEN") \/ lostState = "failed" \/ ~running)

\* a transport created by a reconnect attempt has opened
C30_Witness ==
  /\ last.op = "open"
  /\ sock[last.t].by = "reconnect"
  /\ disconnects = 0

\* C31: a start() call that has not completed still has something that can
\* complete it: its transport can still deliver an open or an error event, or
\* its connect timeout is pending.
C31_PendingStartCanComplete ==
  \A t \in Slots :
    sock[t].awaited => (sock[t].rs \in {"CONNECTING", "ABORTING"} \/ connTimer[t])

\* C32: no market:tick is emitted while the client is stopped.
C32_NoTickWhileStopped ==
  (last.op = "message" /\ ~running) => last.ticks = <<>>

\* C33: the reconnect counter is always between 0 and maxReconnectAttempts.
C33_CounterWithinBounds ==
  reconnectAttempts \in 0 .. maxReconnectAttempts

\* a close event was handled with the counter at its maximum
C33_Witness ==
  /\ last.op = "close"
  /\ last.wasRunning
  /\ last.lost = 1
  /\ reconnectAttempts = maxReconnectAttempts

\* C34: at most one reconnect timer is pending, at most one keepalive
\* interval is active, and an active keepalive interval is the one held in
\* pingInterval, created by the open of the current transport.
C34_NoLeakedTimers ==
  /\ BagCardinality(reconnectTimers) <= 1
  /\ Cardinality({t \in Slots : pingTimer[t]}) <= 1
  /\ \A t \in Slots : pingTimer[t] => (pingInterval = t /\ ws = t)

\* C35: when NotificationService.stop() completes, every message that was
\* in the queue when it was called has been sent and the queue is empty.
C35_StopDrainsQueue ==
  (notif.step.op = "stop" /\ notif.step.wasRunning)
    => /\ notif.messageQueue = <<>>
       /\ \A i \in 1 .. Len(notif.step.remaining) :
            \E j \in 1 .. Len(notif.sent) : notif.sent[j] = notif.step.remaining[i]

\* a message was queued by a running service in the most recent step
QueuedWhileRunning(id) ==
  /\ notif.step.op = "emit"
  /\ notif.step.wasRunning
  /\ \E i \in 1 .. Len(notif.step.queued) : notif.step.queued[i].id = id

WasSent(id) == \E j \in 1 .. Len(notif.sent) : notif.sent[j].id = id

\* C36: at most one processQueue loop is sending at any time; the messages
\* sent, followed by those still queued, are the messages queued, in the order
\* they were queued (FIFO, each sent at most once); and every message queued
\* while the service is running is eventually sent unless the service stops.
C36_SingleConsumerFifo ==
  /\ [](notif.loops <= 1)
  /\ [](notif.loops = 1 => notif.processing)
  /\ [](notif.sent \o notif.messageQueue = notif.queued)
  /\ \A id \in 1 .. MaxMessages :
       QueuedWhileRunning(id) ~> (WasSent(id) \/ ~notif.running)

\* a message queued while an earlier send was in flight was sent by the
\* same loop when it resumed
C36_Witness ==
  /\ notif.step.op = "resume"
  /\ notif.running
  /\ Len(notif.step.sent) = 1
  /\ Len(notif.sent) >= 2
  /\ notif.loops = 1

====
